---- MODULE Spec2Model ----
\* A model of wmse_downloader: the pipeline driver (main), the identifier
\* resolver (getShowArchiveID), the catalog fetcher (fetchArchives) and the
\* transfer engine (downloadShow), with the pure helpers validateShowID and
\* sanitizeFilename.  Strings are sequences of Unicode code points, files are
\* sequences of bytes, and the output directory is a map from file names to
\* contents.
EXTENDS Integers, Sequences, FiniteSets, TLC

\* ---------------------------------------------------------------------------
\* Bounds of the model
\* ---------------------------------------------------------------------------

\* longest catalog the listing service returns
MaxCatalog == 2

\* longest free part of a show key (the rest of the key is padding)
MaxTail == 2
MaxTracks == 1
MaxName == 3
MaxNodes == 3

\* ---------------------------------------------------------------------------
\* Program constants
\* ---------------------------------------------------------------------------

maxShowIDLength == 50

\* 500 * 1024 * 1024 in the program; scaled down so that files stay small
maxFileSize == 1

maxRetries == 3

\* default of the -delay flag, in seconds
delay == 5

\* ---------------------------------------------------------------------------
\* Strings
\* ---------------------------------------------------------------------------

\* ".mp3", ".tmp"
DotMp3 == <<46, 109, 112, 51>>
DotTmp == <<46, 116, 109, 112>>

\* the number of bytes of the UTF-8 encoding of a code point (len() of a Go
\* string counts bytes)
RuneLen(c) == IF c < 128 THEN 1 ELSE IF c < 2048 THEN 2 ELSE IF c < 65536 THEN 3 ELSE 4

RECURSIVE ByteLen(_)
ByteLen(s) == IF s = <<>> THEN 0 ELSE RuneLen(Head(s)) + ByteLen(Tail(s))

\* [a-zA-Z0-9]
IsAlnum(c) == (c >= 97 /\ c <= 122) \/ (c >= 65 /\ c <= 90) \/ (c >= 48 /\ c <= 57)

\* the character class of validShowIDRegex: [a-zA-Z0-9_-]
ShowIDClass(c) == IsAlnum(c) \/ c = 95 \/ c = 45

\* a class that lets the separator through: [a-zA-Z0-9./-]
SafeClassWithSlash(c) == IsAlnum(c) \/ c = 46 \/ c = 45 \/ c = 47

\* the complement of the class of sanitizeFilename's regexp: [a-zA-Z0-9.-]
SafeClass(c) == IsAlnum(c) \/ c = 46 \/ c = 45

\* strings.ToLower on the code points of the model
ToLower(s) == [i \in 1..Len(s) |-> IF s[i] >= 65 /\ s[i] <= 90 THEN s[i] + 32 ELSE s[i]]

HasSuffix(s, suffix) ==
    /\ Len(s) >= Len(suffix)
    /\ SubSeq(s, Len(s) - Len(suffix) + 1, Len(s)) = suffix

\* ---------------------------------------------------------------------------
\* validateShowID
\* ---------------------------------------------------------------------------

\* the index after the longest run of class characters of s that starts at i
RECURSIVE ClassRun(_, _)
ClassRun(s, i) == IF i <= Len(s) /\ ShowIDClass(s[i]) THEN ClassRun(s, i + 1) ELSE i

\* `$` as in Perl: also before a final newline
EndOfTextPerl(s, j) == j = Len(s) + 1 \/ (j = Len(s) /\ s[j] = 10)

\* `$` of a Go regexp without the m flag: only the end of the text
EndOfText(s, j) == j = Len(s) + 1

\* regexp.MatchString(`^[a-zA-Z0-9_-]+$`, id): from the start of the text, one
\* or more class characters, then the end of the text
MatchString(id) ==
    LET j == ClassRun(id, 1)
    IN  j > 1 /\ EndOfText(id, j)

ErrInvalidShowID == {"ErrInvalidShowID: empty or too long",
                     "ErrInvalidShowID: contains invalid characters"}

\* a validation that accepts every key
validateNothing(id) == "nil"

\* validateShowID(id): nil, or ErrInvalidShowID wrapped with its reason
validateShowID(id) ==
    IF id = <<>> \/ ByteLen(id) > maxShowIDLength
    THEN "ErrInvalidShowID: empty or too long"
    ELSE IF ~MatchString(id)
         THEN "ErrInvalidShowID: contains invalid characters"
         ELSE "nil"

\* ---------------------------------------------------------------------------
\* sanitizeFilename
\* ---------------------------------------------------------------------------

RECURSIVE StripTrailingSlashes(_)
StripTrailingSlashes(p) ==
    IF Len(p) > 0 /\ p[Len(p)] = 47
    THEN StripTrailingSlashes(SubSeq(p, 1, Len(p) - 1))
    ELSE p

\* the index of the last '/' of p, 0 if there is none
RECURSIVE LastSlash(_, _)
LastSlash(p, i) == IF i >= 1 /\ p[i] # 47 THEN LastSlash(p, i - 1) ELSE i

\* filepath.Base with '/' as the separator
Base(path) ==
    IF path = <<>> THEN <<46>>
    ELSE LET q == StripTrailingSlashes(path)
             i == LastSlash(q, Len(q))
             r == IF i >= 1 THEN SubSeq(q, i + 1, Len(q)) ELSE q
         IN  IF r = <<>> THEN <<47>> ELSE r

\* reg.ReplaceAllString(filename, "_")
ReplaceUnsafe(s) == [i \in 1..Len(s) |-> IF SafeClass(s[i]) THEN s[i] ELSE 95]

\* a sanitizer that appends the extension without looking
sanitizeAlwaysAppend(filename) == ReplaceUnsafe(Base(filename)) \o DotMp3

\* sanitizeFilename(filename): the base name, unsafe characters replaced,
\* ".mp3" appended unless the name ends in it in any case
sanitizeFilename(filename) ==
    LET f == ReplaceUnsafe(Base(filename))
    IN  IF ~HasSuffix(ToLower(f), DotMp3) THEN f \o DotMp3 ELSE f

\* fmt.Sprintf("%s_%s.mp3", archive.PlaylistDate, archive.ShowID), sanitized;
\* filepath.Join(outputDir, filename) is the file of that name in outputDir
OutputName(archive) ==
    sanitizeFilename(archive.PlaylistDate \o <<95>> \o archive.ShowID \o DotMp3)

TempName(outputPath) == outputPath \o DotTmp

\* ---------------------------------------------------------------------------
\* Inputs: show keys, catalog entries, response bodies, the output directory
\* ---------------------------------------------------------------------------

Min(a, b) == IF a < b THEN a ELSE b

SeqsUpTo(S, n) == UNION {[1..k -> S] : k \in 0..n}

\* a *string is nil, or points to one string: <<>> or <<s>>
Nil == <<>>

\* show keys of a run: "ded", "" and "d/"
RunKeys == {<<100, 101, 100>>, <<>>, <<100, 47>>}

\* playlist dates "1" and "/1" (two entries of the same file name), show id
\* "a", archive URLs "" (not available), "u" and "\n" (a control character,
\* which http.NewRequest rejects)
Dates == {<<49>>, <<47, 49>>}
ShowIDs == {<<97>>}
URLs == {<<>>, <<117>>, <<10>>}

\* type Archive
Archives == [ShowID : ShowIDs, ArchiveURL : URLs, PlaylistID : {Nil},
             PlaylistDate : Dates]

Catalogs == SeqsUpTo(Archives, MaxCatalog)

\* entries as the playlist-enabled program meets them: with and without a
\* playlist_id ("p")
PlaylistArchives == [ShowID : ShowIDs, ArchiveURL : {<<117>>},
                     PlaylistID : {Nil, <<(<<112>>)>>}, PlaylistDate : {<<49>>}]

PlaylistCatalogs == SeqsUpTo(PlaylistArchives, MaxCatalog)

\* the decoded playlist: tracks with an artist ("A") and a title ("T")
Tracks == {[artist |-> <<65>>, title |-> <<84>>]}
Playlists == SeqsUpTo(Tracks, MaxTracks)

\* http.NewRequest fails on a URL that does not parse; a URL with an ASCII
\* control character does not
ParsesAsURL(url) == \A i \in 1..Len(url) : url[i] >= 32 /\ url[i] # 127

\* the response bodies the archive server sends: the bytes 1, 2, 3, ... up to
\* a length beyond what the limiting reader lets through
Body(n) == [i \in 1..n |-> i]
Bodies == {Body(n) : n \in 0..(maxFileSize + 2)}

\* what io.LimitReader(r, maxFileSize+1) lets through of a body
LimitReader(body) == SubSeq(body, 1, Min(Len(body), maxFileSize + 1))

\* the comparison with the cap, off by one
TooLargeOffByOne(written) == written > maxFileSize + 1

\* written > maxFileSize
TooLarge(written) == written > maxFileSize

\* main without the check for an empty catalog
EmptyCatalogNever(archives) == FALSE

\* len(archives) == 0 in main
EmptyCatalog(archives) == Len(archives) = 0

\* downloadShow without the check of lastErr after the loop
LoopFailedNever(e) == FALSE

\* lastErr != nil after the retry loop
LoopFailed(e) == e # "nil"

\* the names downloadShow can give a destination file, and the content of a
\* file that an earlier run left there
FinalNames == {OutputName(a) : a \in Archives}
OldContent == <<255>>

\* ---------------------------------------------------------------------------
\* The file system below outputDir: a function from the names of the files
\* that exist to their contents
\* ---------------------------------------------------------------------------

\* a check that looks for the temp file instead of the destination
StatTempFile(f, name) == (name \o DotTmp) \in DOMAIN f

\* a check for an existing file that never finds one
StatNever(f, name) == FALSE

\* os.Stat(name) returns a nil error
StatOK(f, name) == name \in DOMAIN f

WriteFile(f, name, content) ==
    [n \in DOMAIN f \cup {name} |-> IF n = name THEN content ELSE f[n]]

Remove(f, name) == [n \in DOMAIN f \ {name} |-> f[n]]

\* os.Rename(old, new): new is replaced atomically, old is gone
Rename(f, old, new) == Remove(WriteFile(f, new, f[old]), old)

EmptyFS == [n \in {} |-> <<>>]

\* ---------------------------------------------------------------------------
\* State
\* ---------------------------------------------------------------------------

VARIABLES
    pc,          \* position of the program
    showKey,     \* the -show flag
    verdict,     \* result of validateShowID(showKey), "none" before the call
    resolveErr,  \* error of getShowArchiveID, "none" before the call
    fetchErr,    \* error of fetchArchives, "none" before the call
    exitCode,    \* exit status of the process, -1 while it runs
    catalog,     \* archives in main
    idx,         \* index of main's range loop over archives
    calls,       \* the indexes of the entries downloadShow was called for
    dirExists,   \* outputDir exists
    fs,          \* the files of outputDir
    fsInit,      \* the files of outputDir when the run started
    fs0,         \* the files of outputDir when the current call started
    outputPath,  \* downloadShow's outputPath
    attempt,     \* downloadShow's attempt
    lastErr,     \* downloadShow's lastErr
    err,         \* downloadShow's function-scope err (set by os.Create)
    ret,         \* the value downloadShow returned, "none" while it runs
    gets,        \* GET requests the current call has issued
    sleeps,      \* the time.Sleep calls of the current call, in seconds
    overCap,     \* attempts of the current call whose body exceeded the cap
    okBody,      \* the body the successful attempt of the current call read
    promoted,    \* final names renamed into place during this run
    pageGets,    \* requests for the program page during this run
    apiGets,     \* requests for the list of archives during this run
    withPlaylist,\* the program is the playlist-enabled version
    playErr,     \* what the playlist step of the current call came to
    attemptErr,  \* the error the latest attempt of the current call ended with
    done,        \* Sync, Close and Rename calls of the current call that returned nil
    sanIn,       \* an argument of sanitizeFilename
    sanOut,      \* sanitizeFilename(sanIn)
    sanTwice,    \* sanitizeFilename(sanOut)
    doc,         \* the children of the document node html.Parse returned
    archiveID,   \* getShowArchiveID's archiveID
    sawAfter     \* nodes f was called on after the first assignment to archiveID

vars == <<pc, showKey, verdict, resolveErr, fetchErr, exitCode, catalog, idx,
          calls, dirExists, fs, fsInit, fs0, outputPath, attempt, lastErr,
          err, ret, gets, sleeps, overCap, okBody, promoted, pageGets,
          apiGets, withPlaylist, playErr, attemptErr, done, sanIn, sanOut,
          sanTwice, doc, archiveID, sawAfter>>

\* the variables of the functions that are checked on their own
pureVars == <<sanIn, sanOut, sanTwice, doc, archiveID, sawAfter>>

\* what no step of a run changes
fixedVars == <<withPlaylist, pureVars>>

mainVars == <<fixedVars, showKey, verdict, resolveErr, fetchErr, exitCode,
              catalog, pageGets, apiGets>>
callVars == <<outputPath, attempt, lastErr, err, ret, gets, sleeps,
              overCap, okBody, playErr,
                   attemptErr, done>>

\* okBody holds no body, or the one body <<b>>
NoBody == <<>>

\* the files an earlier run can have left in outputDir
InitialFS == {[n \in S |-> OldContent] : S \in SUBSET FinalNames}

InitCall ==
    /\ outputPath = <<>>
    /\ attempt = 0
    /\ lastErr = "nil"
    /\ err = "nil"
    /\ ret = "none"
    /\ gets = 0
    /\ sleeps = <<>>
    /\ overCap = 0
    /\ okBody = NoBody
    /\ playErr = "none"
    /\ attemptErr = "none"
    /\ done = <<>>

InitPure ==
    /\ sanIn = <<>>
    /\ sanOut = <<>>
    /\ sanTwice = <<>>
    /\ doc = <<>>
    /\ archiveID = <<>>
    /\ sawAfter = 0

InitMain ==
    /\ verdict = "none"
    /\ resolveErr = "none"
    /\ fetchErr = "none"
    /\ exitCode = -1
    /\ catalog = <<>>
    /\ idx = 0
    /\ calls = <<>>
    /\ promoted = {}
    /\ pageGets = 0
    /\ apiGets = 0

Init ==
    /\ pc = "main"
    /\ showKey \in RunKeys
    /\ InitMain
    /\ withPlaylist = FALSE
    /\ dirExists \in BOOLEAN
    /\ fs \in (IF dirExists THEN InitialFS ELSE {EmptyFS})
    /\ fsInit = fs
    /\ fs0 = fs
    /\ InitCall
    /\ InitPure

\* ---------------------------------------------------------------------------
\* main, getShowArchiveID, fetchArchives
\* ---------------------------------------------------------------------------

\* os.Exit(status), or the return of main with status 0
Exit(status) ==
    /\ pc' = "exit"
    /\ exitCode' = status

\* a main that goes on after a failed getShowArchiveID
ResolveFailedNever(e) == FALSE

\* main, after getShowArchiveID: err != nil
ResolveFailed(e) == e # "nil"

\* main calls getShowArchiveID(ctx, *showID): the key is validated, then the
\* program page is fetched, parsed and searched; any error ends the process
GetShowArchiveID ==
    /\ pc = "main"
    /\ verdict' = validateShowID(showKey)
    /\ IF verdict' # "nil"
       THEN /\ resolveErr' = verdict'
            /\ pageGets' = pageGets
       ELSE \E outcome \in {"nil", "ErrGetPage", "ErrPageStatus", "ErrParseHTML",
                            "ErrNoArchiveID"} :
                /\ resolveErr' = outcome
                /\ pageGets' = pageGets + 1
    /\ IF ResolveFailed(resolveErr')
       THEN Exit(1)
       ELSE pc' = "fetchArchives" /\ exitCode' = exitCode
    /\ UNCHANGED <<fixedVars, showKey, fetchErr, catalog, idx, calls, dirExists, fs,
                   fsInit, fs0, promoted, apiGets, callVars>>

\* the lists of archives the API answers with.  The program without the
\* playlist step never reads PlaylistID, so its entries carry none.
ServedCatalogs == IF withPlaylist THEN PlaylistCatalogs ELSE Catalogs

\* main calls fetchArchives(ctx, archiveID) and checks len(archives)
FetchArchives ==
    /\ pc = "fetchArchives"
    /\ apiGets' = apiGets + 1
    /\ \/ /\ \E outcome \in {"ErrGetArchives", "ErrAPIStatus", "ErrParseJSON"} :
                fetchErr' = outcome
          /\ Exit(1)
          /\ UNCHANGED <<catalog, idx>>
       \/ \E archives \in ServedCatalogs :
            /\ fetchErr' = "nil"
            /\ catalog' = archives
            /\ IF EmptyCatalog(archives)
               THEN Exit(1) /\ idx' = idx
               ELSE pc' = "loop" /\ idx' = 1 /\ exitCode' = exitCode
    /\ UNCHANGED <<fixedVars, showKey, verdict, resolveErr, calls, dirExists, fs, fsInit, fs0, promoted, pageGets, callVars>>

\* the range loop of main is over: main returns
MainReturn ==
    /\ pc = "loop"
    /\ idx > Len(catalog)
    /\ Exit(0)
    /\ UNCHANGED <<fixedVars, showKey, verdict, resolveErr, fetchErr, catalog, idx, calls,
                   dirExists, fs, fsInit, fs0, promoted,
                   pageGets, apiGets, callVars>>

\* a driver that gives up at the first failed transfer
MainStopOnError ==
    /\ pc = "returned"
    /\ IF ret # "nil"
       THEN /\ pc' = "exit"
            /\ exitCode' = 1
            /\ UNCHANGED <<idx, callVars>>
       ELSE /\ pc' = "loop"
            /\ idx' = idx + 1
            /\ outputPath' = <<>>
            /\ attempt' = 0
            /\ lastErr' = "nil"
            /\ err' = "nil"
            /\ ret' = "none"
            /\ gets' = 0
            /\ sleeps' = <<>>
            /\ overCap' = 0
            /\ okBody' = NoBody
            /\ playErr' = "none"
            /\ attemptErr' = "none"
            /\ done' = <<>>
            /\ exitCode' = exitCode
    /\ UNCHANGED <<fixedVars, showKey, verdict, resolveErr, fetchErr, catalog, calls,
                   dirExists, fs, fsInit, fs0, promoted,
                   pageGets, apiGets>>

\* downloadShow has returned: main logs the error, if any, and goes on with
\* the next entry
MainNextArchive ==
    /\ pc = "returned"
    /\ pc' = "loop"
    /\ idx' = idx + 1
    /\ outputPath' = <<>>
    /\ attempt' = 0
    /\ lastErr' = "nil"
    /\ err' = "nil"
    /\ ret' = "none"
    /\ gets' = 0
    /\ sleeps' = <<>>
    /\ overCap' = 0
    /\ okBody' = NoBody
    /\ playErr' = "none"
    /\ attemptErr' = "none"
    /\ done' = <<>>
    /\ UNCHANGED <<mainVars, calls, dirExists, fs, fsInit, fs0, promoted>>

\* ---------------------------------------------------------------------------
\* downloadShow
\* ---------------------------------------------------------------------------

\* the deferred function: outFile.Close(), and os.Remove(tempFile) if the
\* function-scope err is not nil
Deferred(f, tempFile, e) == IF e # "nil" THEN Remove(f, tempFile) ELSE f

\* return r before the deferred function is registered
ReturnEarly(r) ==
    /\ pc' = "returned"
    /\ ret' = r

\* return r after it is registered: the deferred function runs on f, the files
\* as the returning statement leaves them.  The function-scope err is the one
\* os.Create assigned; the err of the loop body and of the later if statements
\* are variables of their own blocks.
Return(r, f) ==
    /\ pc' = "returned"
    /\ ret' = r
    /\ fs' = Deferred(f, TempName(outputPath), err)

\* an entry whose URL is never taken for missing
NoURLNever(archive) == FALSE

\* archive.ArchiveURL == ""
NoURL(archive) == archive.ArchiveURL = <<>>

\* main calls downloadShow for the next entry: the URL check, the file name,
\* the check for an existing file, MkdirAll and the creation of the temp file
DownloadShowEnter ==
    /\ pc = "loop"
    /\ idx <= Len(catalog)
    /\ calls' = Append(calls, idx)
    /\ fs0' = fs
    /\ LET archive == catalog[idx]
           filename == OutputName(archive)
       IN  IF NoURL(archive)
           THEN /\ ReturnEarly("ErrNoURL")
                /\ UNCHANGED <<outputPath, dirExists, fs, attempt, err>>
           ELSE /\ outputPath' = filename
                /\ IF StatOK(fs, filename)
                   THEN /\ ReturnEarly("nil")
                        /\ UNCHANGED <<dirExists, fs, attempt, err>>
                   ELSE \E mkdirAll \in {"nil", "ErrMkdirAll"},
                           create \in {"nil", "ErrCreate"} :
                          IF ~dirExists /\ mkdirAll # "nil"
                          THEN /\ ReturnEarly(mkdirAll)
                               /\ UNCHANGED <<dirExists, fs, attempt, err>>
                          ELSE /\ dirExists' = TRUE
                               /\ IF create # "nil"
                                  THEN /\ ReturnEarly(create)
                                       /\ UNCHANGED <<fs, attempt, err>>
                                  ELSE /\ fs' = WriteFile(fs, TempName(filename), <<>>)
                                       /\ err' = create
                                       /\ attempt' = 1
                                       /\ pc' = "attempt"
                                       /\ ret' = ret
    /\ UNCHANGED <<mainVars, idx, fsInit, promoted, lastErr, gets,
                   sleeps, overCap, okBody, playErr,
                   attemptErr, done>>

\* a loop that allows one attempt more
ContinueOnceMore ==
    /\ attempt' = attempt + 1
    /\ pc' = IF attempt + 1 <= maxRetries + 1 THEN "attempt" ELSE "afterLoop"

\* `continue` in the retry loop
Continue ==
    /\ attempt' = attempt + 1
    /\ pc' = IF attempt + 1 <= maxRetries THEN "attempt" ELSE "afterLoop"

\* a retry loop that keeps the error of the first failed attempt
KeepFirstErr(old, e) == IF old = "nil" THEN e ELSE old

\* lastErr = fmt.Errorf(...): the new error replaces the old one
AssignLastErr(old, e) == e

\* an attempt fails with error e: lastErr is assigned, then `continue`
Fail(e) ==
    /\ lastErr' = AssignLastErr(lastErr, e)
    /\ attemptErr' = e
    /\ Continue

\* outFile is open on the temp file since os.Create; io.Copy writes at the
\* offset of the handle, which is the end of what was written so far
CopyTo(f, tempFile, bytes) == WriteFile(f, tempFile, f[tempFile] \o bytes)

\* a backoff that grows with the square of the attempt
BackoffSquare(n) == n * n

\* the backoff before a retry, in seconds
Backoff(n) == n * 2

\* one iteration of the retry loop: http.NewRequest fails, or client.Do fails,
\* or the status is not 200, or the copy stops with an error after some bytes,
\* or the copy reads the body to its end (or to the limit of the reader)
Attempt ==
    /\ pc = "attempt"
    /\ sleeps' = IF attempt > 1 THEN Append(sleeps, Backoff(attempt)) ELSE sleeps
    /\ LET url == catalog[idx].ArchiveURL
           tempFile == TempName(outputPath)
       IN  IF ~ParsesAsURL(url)
           THEN /\ Fail("ErrNewRequest")
                /\ UNCHANGED <<gets, fs, okBody, overCap>>
           ELSE /\ gets' = gets + 1
                /\ \/ /\ Fail("ErrGet")
                      /\ UNCHANGED <<fs, okBody, overCap>>
                   \/ /\ Fail("ErrBadStatus")
                      /\ UNCHANGED <<fs, okBody, overCap>>
                   \/ \E written \in 0..(maxFileSize + 1) :
                        /\ fs' = CopyTo(fs, tempFile, Body(written))
                        /\ Fail("ErrWrite")
                        /\ UNCHANGED <<okBody, overCap>>
                   \/ \E body \in Bodies :
                        LET limited == LimitReader(body)
                        IN  /\ fs' = CopyTo(fs, tempFile, limited)
                            /\ overCap' = IF Len(body) > maxFileSize THEN overCap + 1 ELSE overCap
                            /\ IF TooLarge(Len(limited))
                               THEN /\ Fail("ErrFileTooLarge")
                                    /\ UNCHANGED okBody
                               ELSE /\ lastErr' = "nil"
                                    /\ attemptErr' = "nil"
                                    /\ okBody' = <<body>>
                                    /\ pc' = "afterLoop"
                                    /\ attempt' = attempt
    /\ UNCHANGED <<mainVars, idx, calls, dirExists, fsInit, fs0,
                   promoted, outputPath, err, ret, playErr, done>>

\* after the loop: lastErr != nil
ReturnLastErr ==
    /\ pc = "afterLoop"
    /\ LoopFailed(lastErr)
    /\ Return(lastErr, fs)
    /\ UNCHANGED <<mainVars, idx, calls, dirExists, fsInit, fs0, promoted,
                   outputPath, attempt, lastErr, err, gets, sleeps,
                   overCap, okBody, playErr,
                   attemptErr, done>>

\* outFile.Sync()
Sync ==
    /\ pc = "afterLoop"
    /\ ~LoopFailed(lastErr)
    /\ \/ pc' = "close" /\ done' = Append(done, "sync") /\ UNCHANGED <<ret, fs>>
       \/ Return("ErrSync", fs) /\ done' = done
    /\ UNCHANGED <<mainVars, idx, calls, dirExists, fsInit, fs0, promoted,
                   outputPath, attempt, lastErr, err, gets, sleeps,
                   overCap, okBody, playErr,
                   attemptErr>>

\* the statement after outFile.Close(): the playlist step of the
\* playlist-enabled version for an entry with a playlist_id, else os.Rename
AfterClose ==
    IF withPlaylist /\ catalog[idx].PlaylistID # Nil THEN "playlist" ELSE "rename"

\* a Close whose error is not looked at
CloseIgnoringError ==
    /\ pc = "close"
    /\ \/ pc' = AfterClose /\ done' = Append(done, "close") /\ UNCHANGED <<ret, fs>>
       \/ pc' = AfterClose /\ done' = done /\ UNCHANGED <<ret, fs>>
    /\ UNCHANGED <<mainVars, idx, calls, dirExists, fsInit, fs0, promoted,
                   outputPath, attempt, lastErr, err, gets, sleeps,
                   overCap, okBody, playErr,
                   attemptErr>>

\* outFile.Close()
Close ==
    /\ pc = "close"
    /\ \/ pc' = AfterClose /\ done' = Append(done, "close") /\ UNCHANGED <<ret, fs>>
       \/ Return("ErrClose", fs) /\ done' = done
    /\ UNCHANGED <<mainVars, idx, calls, dirExists, fsInit, fs0, promoted,
                   outputPath, attempt, lastErr, err, gets, sleeps,
                   overCap, okBody, playErr,
                   attemptErr>>

\* os.Rename(tempFile, outputPath), then time.Sleep(delay) and return nil
RenameTemp ==
    /\ pc = "rename"
    /\ \/ /\ Return("nil", Rename(fs, TempName(outputPath), outputPath))
          /\ promoted' = promoted \cup {outputPath}
          /\ sleeps' = Append(sleeps, delay)
          /\ done' = Append(done, "rename")
       \/ /\ Return("ErrRename", fs)
          /\ UNCHANGED <<promoted, sleeps, done>>
    /\ UNCHANGED <<mainVars, idx, calls, dirExists, fsInit, fs0, outputPath,
                   attempt, lastErr, err, gets, overCap, okBody, playErr,
                   attemptErr>>

\* strings.TrimSuffix(s, suffix)
TrimSuffix(s, suffix) ==
    IF HasSuffix(s, suffix) THEN SubSeq(s, 1, Len(s) - Len(suffix)) ELSE s

DotTxt == <<46, 116, 120, 116>>

\* playlistPath
PlaylistPath(path) == TrimSuffix(path, DotMp3) \o DotTxt

\* the text fetchPlaylist builds: "<artist> - <title>\n" for every track
RECURSIVE RenderPlaylist(_)
RenderPlaylist(tracks) ==
    IF tracks = <<>>
    THEN <<>>
    ELSE tracks[1].artist \o <<32, 45, 32>> \o tracks[1].title \o <<10>>
         \o RenderPlaylist(Tail(tracks))

\* the errors of fetchPlaylist
FetchPlaylistErrors == {"ErrGetPlaylist", "ErrPlaylistStatus", "ErrDecodePlaylist"}

\* a playlist step whose failure is returned by downloadShow
PlaylistFailStop(e) == e # "nil"

\* a failure of the playlist step is logged as a warning, never returned
PlaylistFail(e) == FALSE

\* the playlist step of the playlist-enabled downloadShow, between
\* outFile.Close() and os.Rename: fetchPlaylist fails, or os.WriteFile of the
\* text fails (before or after it created the file), or the text is saved.
\* At pc = "playlist" fetchPlaylist has called http.Get and waits for the
\* answer; this step is the arrival of the answer or of an error.
Playlist ==
    /\ pc = "playlist"
    /\ \/ \E e \in FetchPlaylistErrors :
            /\ playErr' = e
            /\ fs' = fs
          \/ \E tracks \in Playlists :
               LET playlist == RenderPlaylist(tracks)
                   playlistPath == PlaylistPath(outputPath)
               IN  \/ /\ playErr' = "ErrWritePlaylist"
                      /\ fs' \in {fs, WriteFile(fs, playlistPath, <<>>)}
                   \/ /\ playErr' = "nil"
                      /\ fs' = WriteFile(fs, playlistPath, playlist)
    /\ IF PlaylistFail(playErr')
       THEN pc' = "returned" /\ ret' = playErr'
       ELSE pc' = "rename" /\ ret' = ret
    /\ UNCHANGED <<mainVars, idx, calls, dirExists, fsInit, fs0,
                   promoted, outputPath, attempt, lastErr, err, gets, sleeps,
                   overCap, okBody, attemptErr, done>>

Next ==
    \/ GetShowArchiveID
    \/ FetchArchives
    \/ DownloadShowEnter
    \/ Attempt
    \/ ReturnLastErr
    \/ Sync
    \/ Close
    \/ RenameTemp
    \/ MainNextArchive
    \/ MainReturn

Spec == Init /\ [][Next]_vars

\* ---------------------------------------------------------------------------
\* The playlist-enabled version of the program
\* ---------------------------------------------------------------------------

InitPlaylist ==
    /\ pc = "main"
    /\ showKey \in RunKeys
    /\ InitMain
    /\ withPlaylist = TRUE
    /\ dirExists \in BOOLEAN
    /\ fs \in (IF dirExists THEN InitialFS ELSE {EmptyFS})
    /\ fsInit = fs
    /\ fs0 = fs
    /\ InitCall
    /\ InitPure

NextPlaylist == Next \/ Playlist

SpecPlaylist == InitPlaylist /\ [][NextPlaylist]_vars

\* ---------------------------------------------------------------------------
\* Progress
\* ---------------------------------------------------------------------------

\* The process keeps running, and every request made through a client with a
\* Timeout (the program page, the list of archives, every download attempt)
\* comes to an end: every step of Next that can be taken is taken.
LiveSpec == Spec /\ WF_vars(Next)

\* fetchPlaylist calls http.Get, the default client, which has no timeout:
\* nothing makes the answer arrive, so there is no fairness for Playlist.
LiveSpecPlaylist == SpecPlaylist /\ WF_vars(Next)

\* ---------------------------------------------------------------------------
\* validateShowID on its own
\* ---------------------------------------------------------------------------

\* "d" repeated n times
Pad(n) == [i \in 1..n |-> 100]

\* a, Z, 0, _, -, /, space, ., newline, [ and e with an acute accent
KeyAlphabet == {97, 90, 48, 95, 45, 47, 32, 46, 10, 91, 233}

\* keys of every length from 0 to beyond maxShowIDLength, which end in every
\* short string over the alphabet
TestKeys == {Pad(n) \o tail : n \in 0..(maxShowIDLength + 1),
                              tail \in SeqsUpTo(KeyAlphabet, MaxTail)}

InitValidate ==
    /\ pc = "validate"
    /\ showKey \in TestKeys
    /\ InitMain
    /\ withPlaylist = FALSE
    /\ dirExists = FALSE
    /\ fs = EmptyFS
    /\ fsInit = fs
    /\ fs0 = fs
    /\ InitCall
    /\ InitPure

\* validateShowID(showKey)
ValidateShowID ==
    /\ pc = "validate"
    /\ verdict' = validateShowID(showKey)
    /\ pc' = "validated"
    /\ UNCHANGED <<fixedVars, showKey, resolveErr, fetchErr, exitCode, catalog, idx,
                   calls, dirExists, fs, fsInit, fs0, promoted,
                   pageGets, apiGets, callVars>>

NextValidate == ValidateShowID

SpecValidate == InitValidate /\ [][NextValidate]_vars

\* ---------------------------------------------------------------------------
\* sanitizeFilename on its own
\* ---------------------------------------------------------------------------

\* a, M, 1, ., -, _, /, space and e with an acute accent
NameAlphabet == {97, 77, 49, 46, 45, 95, 47, 32, 233}

\* "", ".mp3", ".MP3", ".mp3/" and ".Mp3."
NameEndings == {<<>>, DotMp3, <<46, 77, 80, 51>>, DotMp3 \o <<47>>,
                <<46, 77, 112, 51, 46>>}

\* every short string over the alphabet (among them "", ".", "..", "/" and
\* names with and ending in '/'), alone and followed by each ending
TestNames == {head \o ending : head \in SeqsUpTo(NameAlphabet, MaxName),
                               ending \in NameEndings}

\* the program before main has called anything
Idle ==
    /\ showKey = <<>>
    /\ InitMain
    /\ withPlaylist = FALSE
    /\ dirExists = FALSE
    /\ fs = EmptyFS
    /\ fsInit = fs
    /\ fs0 = fs
    /\ InitCall

InitSanitize ==
    /\ pc = "sanitize"
    /\ Idle
    /\ sanIn \in TestNames
    /\ sanOut = <<>>
    /\ sanTwice = <<>>
    /\ doc = <<>>
    /\ archiveID = <<>>
    /\ sawAfter = 0

\* what a run of the program reads and writes
progVars == <<withPlaylist, showKey, verdict, resolveErr, fetchErr, exitCode,
              catalog, idx, calls, dirExists, fs, fsInit, fs0,
              promoted, pageGets, apiGets, callVars>>

\* sanitizeFilename(sanIn), and sanitizeFilename of the result
SanitizeFilename ==
    /\ pc = "sanitize"
    /\ sanOut' = sanitizeFilename(sanIn)
    /\ sanTwice' = sanitizeFilename(sanOut')
    /\ pc' = "sanitized"
    /\ UNCHANGED <<progVars, sanIn, doc, archiveID, sawAfter>>

NextSanitize == SanitizeFilename

SpecSanitize == InitSanitize /\ [][NextSanitize]_vars

\* ---------------------------------------------------------------------------
\* The search of the program page on its own
\* ---------------------------------------------------------------------------

\* element nodes: the tag and the show-id attribute, nil or a value ("", "1",
\* "2").  A div, a div with a show-id, and wmse-archive elements without the
\* attribute and with each value.
Elements ==
    {[tag |-> "div", showID |-> Nil], [tag |-> "div", showID |-> <<(<<49>>)>>]}
    \cup [tag : {"wmse-archive"},
          showID : {Nil, <<(<<>>)>>, <<(<<49>>)>>, <<(<<50>>)>>}]

\* the sequences of sibling trees with n element nodes in all
RECURSIVE Forest(_)
Forest(n) ==
    IF n = 0
    THEN {<<>>}
    ELSE UNION {{<<[elem |-> e, kids |-> c]>> \o r :
                    e \in Elements, c \in Forest(k - 1), r \in Forest(n - k)} :
                k \in 1..n}

\* the pages html.Parse can return, up to MaxNodes elements
Docs == UNION {Forest(n) : n \in 0..MaxNodes}

\* the closure f of getShowArchiveID, called on node n; acc is archiveID and
\* the count of calls since the first assignment to it.  The return after the
\* assignment ends this call of f only: the loops of the callers go on.
RECURSIVE F(_, _)
F(n, acc) ==
    LET here == IF acc.done THEN [acc EXCEPT !.sawAfter = @ + 1] ELSE acc
    IN  IF n.elem.tag = "wmse-archive" /\ n.elem.showID # Nil
        THEN [here EXCEPT !.archiveID = n.elem.showID[1], !.done = TRUE]
        ELSE LET Kids[i \in 0..Len(n.kids)] ==
                     IF i = 0 THEN here ELSE F(n.kids[i], Kids[i - 1])
             IN  Kids[Len(n.kids)]

\* f(doc): the document node is no element, f goes through its children
FindArchiveID(d) ==
    F([elem |-> [tag |-> "#document", showID |-> Nil], kids |-> d],
      [archiveID |-> <<>>, done |-> FALSE, sawAfter |-> 0])

InitResolve ==
    /\ pc = "parsed"
    /\ Idle
    /\ sanIn = <<>>
    /\ sanOut = <<>>
    /\ sanTwice = <<>>
    /\ doc \in Docs
    /\ archiveID = <<>>
    /\ sawAfter = 0

\* the end of getShowArchiveID: the search, and the check of archiveID
SearchPage ==
    /\ pc = "parsed"
    /\ LET r == FindArchiveID(doc)
       IN  /\ archiveID' = r.archiveID
           /\ sawAfter' = r.sawAfter
           /\ resolveErr' = IF r.archiveID = <<>> THEN "ErrNoArchiveID" ELSE "nil"
    /\ pc' = "resolved"
    /\ UNCHANGED <<withPlaylist, showKey, verdict, fetchErr, exitCode, catalog,
                   idx, calls, dirExists, fs, fsInit, fs0,
                   promoted, pageGets, apiGets, callVars, sanIn, sanOut,
                   sanTwice, doc>>

NextResolve == SearchPage

SpecResolve == InitResolve /\ [][NextResolve]_vars

\* ---------------------------------------------------------------------------
\* Properties
\* ---------------------------------------------------------------------------

\* a name of outputDir that is not a temp file
IsFinalName(n) == ~HasSuffix(n, DotTmp)

\* the entry the current call of downloadShow is for
Current == catalog[idx]

\* C1: when downloadShow is called for an entry with a URL whose destination
\* file exists, it returns nil without a single GET, and the files of
\* outputDir (the destination and any temp file) are what they were.
C1_SkipExisting ==
    (/\ pc = "returned"
     /\ Current.ArchiveURL # <<>>
     /\ OutputName(Current) \in DOMAIN fs0)
    => (ret = "nil" /\ gets = 0 /\ fs = fs0)

C1_Witness ==
    /\ pc = "returned"
    /\ Current.ArchiveURL # <<>>
    /\ OutputName(Current) \in DOMAIN fs0
    /\ ret = "nil"

\* the errors downloadShow returns once the temp file exists
AfterCreateErrors == {"ErrNewRequest", "ErrGet", "ErrBadStatus", "ErrWrite",
                      "ErrFileTooLarge", "ErrSync", "ErrClose", "ErrRename"}

\* C2: whenever downloadShow returns an error after it created the temp
\* file, the temp file is gone.
C2_TempRemovedOnError ==
    (pc = "returned" /\ ret \in AfterCreateErrors)
    => TempName(outputPath) \notin DOMAIN fs

\* C3: when the first two attempts fail and the third succeeds, the promoted
\* file holds exactly the body of the third attempt.
C3_ExactBytesAfterRetries ==
    (/\ pc = "returned"
     /\ ret = "nil"
     /\ attempt = maxRetries
     /\ okBody # NoBody)
    => fs[outputPath] = okBody[1]

\* C4: a file promoted to its final name is never larger than maxFileSize.
C4_PromotedWithinCap ==
    \A n \in promoted : Len(fs[n]) <= maxFileSize

\* C5: a final file is there only if it was there when the run started or it
\* was promoted; a step leaves every final file as it is, or brings one into
\* existence by renaming the temp file of the current call after an attempt
\* that succeeded with at most maxFileSize bytes.
C5_State ==
    \A n \in DOMAIN fs : IsFinalName(n) => (n \in DOMAIN fsInit \/ n \in promoted)

C5_Step ==
    \A n \in DOMAIN fs' :
        IsFinalName(n) =>
            \/ n \in DOMAIN fs /\ fs'[n] = fs[n]
            \/ /\ n \notin DOMAIN fs
               /\ n = outputPath
               /\ lastErr = "nil"
               /\ okBody # NoBody
               /\ Len(okBody[1]) <= maxFileSize
               /\ TempName(n) \in DOMAIN fs
               /\ fs'[n] = fs[TempName(n)]
               /\ TempName(n) \notin DOMAIN fs'

C5_FinalOnlyByPromotion == []C5_State /\ [][C5_Step]_vars

C5_Witness ==
    \E n \in promoted : n \in DOMAIN fs /\ n \notin DOMAIN fsInit

\* C6: when every attempt of a transfer meets a body beyond the cap, all
\* maxRetries attempts are made, downloadShow returns the size error and there
\* is no file at the destination.
C6_AllAttemptsOverCap ==
    (pc = "returned" /\ gets > 0 /\ overCap = gets)
    => (/\ gets = maxRetries
        /\ ret = "ErrFileTooLarge"
        /\ outputPath \notin DOMAIN fs)

C6_Witness ==
    /\ pc = "returned"
    /\ overCap = maxRetries
    /\ ret = "ErrFileTooLarge"

\* C7: whatever the outcome, downloadShow has slept the inter-download delay
\* exactly once when it returns.
C7_DelayOnEveryReturn ==
    pc = "returned" => Cardinality({i \in 1..Len(sleeps) : sleeps[i] = delay}) = 1

\* C8: downloadShow is called for the entries in catalog order, each once,
\* and when the run ends after a non-empty catalog it was called for all of
\* them, whatever the calls returned.
C8_EveryEntryOnce ==
    /\ calls = [i \in 1..Len(calls) |-> i]
    /\ Len(calls) <= Len(catalog)
    /\ pc = "returned" => Len(calls) = idx
    /\ (pc = "exit" /\ fetchErr = "nil" /\ catalog # <<>>)
        => Len(calls) = Len(catalog)

C8_Witness ==
    /\ pc = "exit"
    /\ Len(catalog) = 2
    /\ catalog[1].ArchiveURL = <<>>
    /\ calls = <<1, 2>>
    /\ promoted # {}

\* C9: the exit status is non-zero exactly when the resolution failed, the
\* catalog fetch failed or the catalog is empty, whatever the transfers did.
C9_ExitStatus ==
    pc = "exit" =>
        /\ exitCode \in {0, 1}
        /\ exitCode # 0 <=> \/ resolveErr # "nil"
                            \/ fetchErr # "nil"
                            \/ catalog = <<>>

\* a run that ends with status 0 though no transfer left a final file
C9_Witness ==
    /\ pc = "exit"
    /\ exitCode = 0
    /\ Len(calls) = 2
    /\ \A n \in DOMAIN fs : ~IsFinalName(n)

\* [A-Za-z0-9_-]
KeyChar(c) == c \in (65..90) \cup (97..122) \cup (48..57) \cup {95, 45}

\* C10: validateShowID accepts a key if and only if it has 1 to 50
\* characters, all of them in [A-Za-z0-9_-], and rejects every other key with
\* the invalid-show-ID error.
C10_ValidateShowID ==
    pc = "validated" =>
        IF Len(showKey) \in 1..50 /\ \A i \in 1..Len(showKey) : KeyChar(showKey[i])
        THEN verdict = "nil"
        ELSE verdict \in ErrInvalidShowID

C10_Witness ==
    /\ pc = "validated"
    /\ Len(showKey) = 50
    /\ verdict = "nil"

\* the key breaks the rule for show keys: it is empty, or longer than
\* maxShowIDLength bytes, or has a character outside letters, digits, _ and -
InvalidKey(k) ==
    \/ k = <<>>
    \/ ByteLen(k) > 50
    \/ \E i \in 1..Len(k) : ~KeyChar(k[i])

\* C11: a run whose show key is invalid issues no request at all (none for the
\* program page, none for the list of archives, no download), never calls
\* downloadShow, creates no file and no directory, and its only step is the
\* exit with status 1.
C11_State ==
    InvalidKey(showKey) =>
        /\ pageGets = 0 /\ apiGets = 0 /\ gets = 0
        /\ calls = <<>>
        /\ fs = fsInit
        /\ pc \in {"main", "exit"}
        /\ pc = "exit" => exitCode = 1

C11_Step ==
    InvalidKey(showKey) =>
        /\ pc = "main" /\ pc' = "exit" /\ exitCode' = 1
        /\ pageGets' = 0 /\ apiGets' = 0 /\ gets' = 0
        /\ fs' = fs /\ dirExists' = dirExists

C11_InvalidKeyNoEffect == []C11_State /\ [][C11_Step]_vars

C11_Witness ==
    /\ InvalidKey(showKey)
    /\ pc = "exit"
    /\ resolveErr \in ErrInvalidShowID

\* C12: a call of downloadShow for an entry with an empty URL returns the
\* no-URL error with no GET issued, no file created or changed (no temp file)
\* and outputDir not created; main then goes on with the next entry.
C12_State ==
    (pc = "returned" /\ Current.ArchiveURL = <<>>)
    => (ret = "ErrNoURL" /\ gets = 0 /\ fs = fs0)

C12_Step ==
    /\ (pc = "loop" /\ idx <= Len(catalog) /\ Current.ArchiveURL = <<>>)
       => (/\ pc' = "returned"
           /\ ret' = "ErrNoURL"
           /\ gets' = 0
           /\ fs' = fs
           /\ dirExists' = dirExists)
    /\ (pc = "returned" /\ Current.ArchiveURL = <<>>)
       => (pc' = "loop" /\ idx' = idx + 1 /\ catalog' = catalog)

C12_EmptyURLFailsAtOnce == []C12_State /\ [][C12_Step]_vars

C12_Witness ==
    /\ Len(catalog) = 2
    /\ catalog[1].ArchiveURL = <<>>
    /\ calls = <<1, 2>>
    /\ pc = "returned"

\* the ways the playlist step fails
PlaylistFailures == {"ErrGetPlaylist", "ErrPlaylistStatus", "ErrDecodePlaylist",
                     "ErrWritePlaylist"}

\* C13: in the playlist-enabled version, a playlist step that fails (request
\* error, status other than 200, decode failure, failure to write the .txt
\* file) returns nothing and leaves the temp file as it was; the next
\* statement is os.Rename, and the call returns nil with the temp file renamed
\* to the destination unless os.Rename itself fails.
C13_State ==
    (pc \in {"rename", "returned"} /\ playErr \in PlaylistFailures)
    => (/\ okBody # NoBody
        /\ pc = "rename" => ret = "none" /\ TempName(outputPath) \in DOMAIN fs
        /\ pc = "returned" => ret \in {"nil", "ErrRename"}
        /\ (pc = "returned" /\ ret = "nil")
           => (outputPath \in promoted /\ outputPath \in DOMAIN fs
               /\ TempName(outputPath) \notin DOMAIN fs))

C13_Step ==
    (pc = "playlist")
    => (/\ pc' = "rename"
        /\ ret' = ret
        /\ fs'[TempName(outputPath)] = fs[TempName(outputPath)]
        /\ outputPath \in DOMAIN fs' <=> outputPath \in DOMAIN fs)

C13_PlaylistFailureIgnored == []C13_State /\ [][C13_Step]_vars

C13_Witness ==
    /\ pc = "returned"
    /\ Current.PlaylistID # Nil
    /\ playErr = "ErrWritePlaylist"
    /\ ret = "nil"
    /\ outputPath \in DOMAIN fs
    /\ outputPath \notin DOMAIN fsInit

\* C14: for every argument (the empty string, ".", "..", names with '/' and
\* names ending in '/' among them) the result of sanitizeFilename has no '/',
\* is neither "." nor "..", and ends in ".mp3" in upper or lower case.
C14_SanitizedIsPlainMp3Name ==
    pc = "sanitized" =>
        LET n == Len(sanOut)
        IN  /\ \A i \in 1..n : sanOut[i] # 47
            /\ sanOut # <<46>>
            /\ sanOut # <<46, 46>>
            /\ n >= 4
            /\ sanOut[n - 3] = 46
            /\ sanOut[n - 2] \in {109, 77}
            /\ sanOut[n - 1] \in {112, 80}
            /\ sanOut[n] = 51

C14_Witness ==
    /\ pc = "sanitized"
    /\ sanIn = <<46, 46, 47>>
    /\ sanOut = <<46, 46>> \o DotMp3

\* the characters C15 speaks of: letters, digits, '.', '-', '_', '/', space
InNameClass(c) == IsAlnum(c) \/ c \in {46, 45, 95, 47, 32}

\* C15: sanitizeFilename applied to its own result gives that result again,
\* for every argument made of letters, digits, '.', '-', '_', '/' and space.
C15_SanitizeIdempotent ==
    (pc = "sanitized" /\ \A i \in 1..Len(sanIn) : InNameClass(sanIn[i]))
    => sanTwice = sanOut

C15_Witness ==
    /\ pc = "sanitized"
    /\ sanIn = <<47, 32, 95, 46, 77, 80, 51>>
    /\ sanOut = <<95, 95, 46, 77, 80, 51>>
    /\ sanTwice = sanOut

\* the elements of a sequence of sibling trees in document order
RECURSIVE Preorder(_)
Preorder(forest) ==
    IF forest = <<>>
    THEN <<>>
    ELSE <<forest[1].elem>> \o Preorder(forest[1].kids) \o Preorder(Tail(forest))

\* the wmse-archive elements with a show-id attribute, in document order
Matches(forest) ==
    SelectSeq(Preorder(forest),
              LAMBDA e : e.tag = "wmse-archive" /\ e.showID # Nil)

\* C16: when the page has wmse-archive elements with a show-id attribute, the
\* search returns the value of the first of them in document order, and f is
\* called on no node after it has found that element.
C16_FirstMatchReturned ==
    (pc = "resolved" /\ Len(Matches(doc)) >= 1)
    => (/\ archiveID = Matches(doc)[1].showID[1]
        /\ sawAfter = 0)

\* the errors an attempt of the retry loop ends with
AttemptErrors == {"ErrNewRequest", "ErrGet", "ErrBadStatus", "ErrWrite",
                  "ErrFileTooLarge"}

\* C17: a call makes at most 3 attempts and at most 3 GETs; a failed attempt
\* is followed by the next one while fewer than 3 were made, and by the end of
\* the loop after the third; a successful attempt ends the loop, and the call
\* issues no GET after it.
C17_State ==
    /\ gets <= 3
    /\ pc = "attempt" => (attempt \in 1..3 /\ gets <= attempt - 1 /\ okBody = NoBody)
    /\ okBody # NoBody => pc # "attempt"

C17_Step ==
    /\ (pc = "attempt" /\ attemptErr' \in AttemptErrors)
       => IF attempt < 3
          THEN pc' = "attempt" /\ attempt' = attempt + 1
          ELSE pc' = "afterLoop"
    /\ (pc = "attempt" /\ attemptErr' = "nil")
       => (pc' = "afterLoop" /\ okBody' # NoBody)
    /\ okBody # NoBody => (gets' = gets \/ pc' = "loop")

C17_AtMostThreeAttempts == []C17_State /\ [][C17_Step]_vars

C17_Witness ==
    /\ pc = "afterLoop"
    /\ gets = 3
    /\ okBody # NoBody

\* C18: the call sleeps 4 seconds before its second attempt and 6 seconds
\* before its third, and not before the first; there is no backoff after the
\* last attempt or after a successful one: the sleeps of a call are these
\* backoffs, followed only by the delay of a call that returns nil.
C18_BackoffSchedule ==
    LET started == IF pc = "attempt" THEN attempt - 1
                   ELSE IF attempt > 3 THEN 3 ELSE attempt
        backoffs == SubSeq(<<4, 6>>, 1, started - 1)
    IN  \/ sleeps = backoffs
        \/ /\ pc = "returned"
           /\ ret = "nil"
           /\ sleeps = Append(backoffs, delay)

C18_Witness ==
    /\ pc = "returned"
    /\ okBody # NoBody
    /\ sleeps = <<4, 6, delay>>

\* C19: when all 3 attempts failed, downloadShow returns the error of the
\* third attempt; when an attempt succeeded, it returns the error of no
\* attempt.
C19_LastAttemptErrorReturned ==
    /\ (pc = "returned" /\ attempt > 3)
       => (attemptErr \in AttemptErrors /\ ret = attemptErr)
    /\ (pc = "returned" /\ okBody # NoBody) => ret \notin AttemptErrors

C19_Witness ==
    /\ pc = "returned"
    /\ attempt > 3
    /\ gets = 3
    /\ overCap = 1
    /\ ret = "ErrFileTooLarge"

\* C20: os.Rename succeeds only after a successful attempt, then a successful
\* Sync, then a successful Close, in this order; when Sync or Close fails the
\* rename is not performed and the destination does not come into existence.
C20_RenameAfterSyncAndClose ==
    /\ done # <<>> => (okBody # NoBody /\ lastErr = "nil")
    /\ done \in {<<>>, <<"sync">>, <<"sync", "close">>, <<"sync", "close", "rename">>}
    /\ pc = "close" => done = <<"sync">>
    /\ pc = "rename" => done = <<"sync", "close">>
    /\ (pc \in {"attempt", "afterLoop", "close", "rename", "returned"}
        /\ outputPath \in DOMAIN fs /\ outputPath \notin DOMAIN fs0)
       => done = <<"sync", "close", "rename">>
    /\ (pc = "returned" /\ ret \in {"ErrSync", "ErrClose"})
       => (/\ done \in {<<>>, <<"sync">>}
           /\ outputPath \notin DOMAIN fs
           /\ outputPath \notin promoted)

C20_Witness ==
    /\ pc = "returned"
    /\ ret = "ErrClose"
    /\ done = <<"sync">>
    /\ okBody # NoBody

\* C21: in every run getShowArchiveID is called exactly once, before
\* fetchArchives; fetchArchives is called at most once and only after
\* getShowArchiveID returned nil; no download request is issued and no
\* directory or file is created or changed unless both returned nil and the
\* list of archives is not empty.
C21_State ==
    /\ pageGets <= 1 /\ apiGets <= 1
    /\ (pc = "main") <=> (resolveErr = "none")
    /\ (apiGets = 1 \/ fetchErr # "none") => (resolveErr = "nil" /\ pageGets = 1)
    /\ (apiGets = 1) <=> (fetchErr # "none")
    /\ (calls # <<>> \/ gets > 0 \/ fs # fsInit)
       => (resolveErr = "nil" /\ fetchErr = "nil" /\ catalog # <<>>)

C21_Step ==
    /\ resolveErr # "none" => resolveErr' = resolveErr
    /\ fetchErr # "none" => fetchErr' = fetchErr
    /\ (dirExists' # dirExists \/ fs' # fs \/ gets' > gets \/ calls' # calls)
       => (resolveErr = "nil" /\ fetchErr = "nil" /\ catalog # <<>>)

C21_DriverOrder == []C21_State /\ [][C21_Step]_vars

C21_Witness ==
    /\ pc = "exit"
    /\ exitCode = 0
    /\ pageGets = 1 /\ apiGets = 1
    /\ Len(calls) = 2
    /\ promoted # {}

\* the positions inside a call of downloadShow
InCall == {"attempt", "afterLoop", "close", "playlist", "rename"}

\* C22: if every request that carries a timeout comes to an end, every call
\* of downloadShow returns, the playlist step of the playlist-enabled version
\* included, and the run reaches its end.
C22_EveryCallReturns ==
    /\ (pc \in InCall) ~> (pc = "returned")
    /\ <>(pc = "exit")

\* the current call has written the sidecar of its destination
WroteSidecar ==
    LET playlistPath == PlaylistPath(outputPath)
    IN  /\ playlistPath \in DOMAIN fs
        /\ (playlistPath \notin DOMAIN fs0 \/ fs[playlistPath] # fs0[playlistPath])

\* C23: in the playlist-enabled version, when downloadShow has returned, the
\* .txt file this call wrote exists only if the .mp3 file exists at the
\* destination, and a call that returns an error has left no .txt file.
C23_SidecarOnlyWithMp3 ==
    (pc = "returned" /\ WroteSidecar)
    => (outputPath \in DOMAIN fs /\ ret = "nil")

\* C24: once a destination has been promoted in this run, it stays in place
\* with the bytes it was promoted with and is promoted no second time; a call
\* for a later entry (with a URL) that derives the same destination returns
\* nil at once, with no GET and no change to the files.
C24_State ==
    /\ \A n \in promoted : n \in DOMAIN fs
    /\ pc \in {"attempt", "afterLoop", "close", "rename"} => outputPath \notin promoted

C24_Step ==
    /\ \A n \in promoted : fs'[n] = fs[n]
    /\ (/\ pc = "loop"
        /\ idx <= Len(catalog)
        /\ Current.ArchiveURL # <<>>
        /\ OutputName(Current) \in promoted)
       => (/\ pc' = "returned"
           /\ ret' = "nil"
           /\ gets' = 0
           /\ fs' = fs
           /\ promoted' = promoted)

C24_SameDestinationOnce == []C24_State /\ [][C24_Step]_vars

C24_Witness ==
    /\ pc = "returned"
    /\ calls = <<1, 2>>
    /\ catalog[1].PlaylistDate # catalog[2].PlaylistDate
    /\ OutputName(catalog[1]) = OutputName(catalog[2])
    /\ OutputName(catalog[2]) \in promoted
    /\ OutputName(catalog[2]) \notin DOMAIN fsInit
    /\ gets = 0
    /\ ret = "nil"

====
